---------------------------- MODULE Spec2Model ----------------------------
(***************************************************************************)
(* Model of src/main.py: the Debian "Packages" index parser                *)
(* (parse_package_dependencies), the breadth-first dependency-graph        *)
(* builder (build_dependency_graph_bfs) and the two reverse-dependency     *)
(* searches (find_reverse_dependencies, find_reverse_dependencies_advanced)*)
(* as driven by main().                                                    *)
(*                                                                         *)
(* A Python str is a sequence of one-character strings; a Python list is a *)
(* sequence; None is the model value NoneValue.                            *)
(***************************************************************************)
EXTENDS Integers, Sequences, FiniteSets, TLC

(***************************************************************************)
(* Python str operations used by the program.                              *)
(***************************************************************************)

\* None: a value no str equals (every str is a sequence of single characters).
NoneValue == <<"None">>

\* The characters str.strip() removes among those the model's texts use.
Whitespace == {" ", "\n", "\t", "\r"}

Range(s) == {s[i] : i \in 1..Len(s)}

\* s.startswith(p)
StartsWith(s, p) == Len(p) <= Len(s) /\ SubSeq(s, 1, Len(p)) = p

\* s[n:]
DropFirst(s, n) == SubSeq(s, n + 1, Len(s))

\* whether sep occurs in s at position i
MatchAt(s, sep, i) ==
    i + Len(sep) - 1 <= Len(s) /\ SubSeq(s, i, i + Len(sep) - 1) = sep

\* sub in s  (the empty string is in every string)
Contains(s, sub) == \E i \in 1..(Len(s) + 1) : MatchAt(s, sub, i)

\* The only element of a one-element set.  Writing f(e) as
\* The({f(x) : x \in {e}}) has e computed once, however often f uses it.
The(S) == CHOOSE x \in S : TRUE

\* The pieces of s between the occurrences P of sep, left to right.
SplitAt(s, sep, P) ==
    LET n == Cardinality(P)
        Nth(k) == CHOOSE p \in P : Cardinality({q \in P : q < p}) = k - 1
        first(k) == IF k = 1 THEN 1 ELSE Nth(k - 1) + Len(sep)
        last(k) == IF k = n + 1 THEN Len(s) ELSE Nth(k) - 1
    IN  [k \in 1..(n + 1) |-> SubSeq(s, first(k), last(k))]

\* s.split(sep).  The separators the program splits at ("\n", ",", " ",
\* " (") cannot overlap themselves, so every occurrence separates.
Split(s, sep) ==
    The({SplitAt(s, sep, P) : P \in {{i \in 1..Len(s) : MatchAt(s, sep, i)}}})

\* s without the whitespace before its first and after its last
\* non-whitespace position (K: the non-whitespace positions of s)
StripAt(s, K) ==
    IF K = {} THEN <<>>
    ELSE SubSeq(s, CHOOSE i \in K : \A j \in K : i <= j,
                   CHOOSE i \in K : \A j \in K : i >= j)

\* s.strip()
Strip(s) ==
    The({StripAt(x, {i \in 1..Len(x) : x[i] \notin Whitespace}) : x \in {s}})

\* The code points' order among the characters the model's texts use.
Alphabet ==
    << "\t", "\n", "\r", " ", "(", ")", ",", ".", "0", "1", "2", ":", "=", ">",
       "A", "B", "C", "D", "E", "F", "G", "H", "I", "J", "K", "L", "M", "N",
       "O", "P", "Q", "R", "T", "X", "a", "c", "d", "e", "g", "k", "n", "p",
       "s", "|" >>

Ord(c) == CHOOSE i \in 1..Len(Alphabet) : Alphabet[i] = c

\* a < b for two Python str (lexicographic by code point)
RECURSIVE StrLess(_, _)
StrLess(a, b) ==
    IF b = <<>> THEN FALSE
    ELSE IF a = <<>> THEN TRUE
    ELSE IF Head(a) = Head(b) THEN StrLess(Tail(a), Tail(b))
    ELSE Ord(Head(a)) < Ord(Head(b))

\* sorted(list(S)) for a set S of str
RECURSIVE SortedList(_)
SortedList(S) ==
    IF S = {} THEN <<>>
    ELSE LET m == CHOOSE x \in S : \A y \in S \ {x} : StrLess(x, y)
         IN  <<m>> \o SortedList(S \ {m})

\* The orders list(set(...)) may return the elements of S in.
ListsOfSet(S) ==
    UNION {{l \in [1..Cardinality(T) -> T] : Range(l) = T} : T \in {S}}

(***************************************************************************)
(* parse_package_dependencies                                              *)
(***************************************************************************)

PackagePrefix == <<"P", "a", "c", "k", "a", "g", "e", ":", " ">>
DependsPrefix == <<"D", "e", "p", "e", "n", "d", "s", ":", " ">>

\* One clause of a Depends value to the name the code keeps (src lines
\* 132-137 and 407-411): split at the first " (" when the clause holds one,
\* else at the first space.
DepName(dep) ==
    The({IF Contains(d, <<" ", "(">>)
         THEN Strip(Split(d, <<" ", "(">>)[1])
         ELSE Strip(Split(d, <<" ">>)[1]) : d \in {Strip(dep)}})

\* src lines 131-139: the non-empty names of the clauses, in order
NonEmpty(dep_name) == dep_name # <<>>
NamesOf(raw_deps) ==
    SelectSeq([k \in 1..Len(raw_deps) |-> DepName(raw_deps[k])], NonEmpty)

\* The names one Depends value appends, in order (src lines 130-139, 405-413).
DependsNames(dep_line) ==
    The({NamesOf(raw_deps) : raw_deps \in {Split(dep_line, <<",">>)}})

\* Variant: the field value only has to start with the requested name
IsTargetLineByPrefix(line, package_name) ==
    StartsWith(line, PackagePrefix \o package_name)

\* src line 120: the line that opens the requested package's stanza
IsTargetLine(line, package_name) ==
    StartsWith(line, PackagePrefix) /\ DropFirst(line, 9) = package_name

\* The loop of src lines 118-142 from line i on: the names appended, in order.
RECURSIVE ParseFrom(_, _, _, _)
ParseFrom(lines, i, package_name, in_target_package) ==
    IF i > Len(lines) THEN <<>>
    ELSE LET line == lines[i]
         IN  IF IsTargetLine(line, package_name)
             THEN ParseFrom(lines, i + 1, package_name, TRUE)
             ELSE IF in_target_package
             THEN IF StartsWith(line, DependsPrefix)
                  THEN DependsNames(DropFirst(line, 9))
                       \o ParseFrom(lines, i + 1, package_name, TRUE)
                  ELSE IF StartsWith(line, PackagePrefix)
                       THEN <<>>
                       ELSE ParseFrom(lines, i + 1, package_name, TRUE)
             ELSE ParseFrom(lines, i + 1, package_name, FALSE)

\* The set behind the returned list(set(dependencies)) (src line 145); the
\* list's order is the caller's choice among ListsOfSet.
parse_package_dependencies(content, package_name) ==
    UNION {Range(ParseFrom(lines, 1, package_name, FALSE)) :
             lines \in {Split(content, <<"\n">>)}}

(***************************************************************************)
(* find_reverse_dependencies_advanced, after the download                  *)
(***************************************************************************)

\* Variant: a closing stanza is appended whatever it depends on
StanzaHitAlways(target_package, current_package, current_dependencies) ==
    IF current_package # NoneValue /\ current_package # <<>>
    THEN <<current_package>> ELSE <<>>

\* Variant: a hit appends the target, not the stanza's package
StanzaHitNamesTarget(target_package, current_package, current_dependencies) ==
    IF current_package # NoneValue /\ current_package # <<>>
       /\ target_package \in Range(current_dependencies)
    THEN <<target_package>> ELSE <<>>

\* src lines 395-396 and 416-417: what closing a stanza appends
StanzaHit(target_package, current_package, current_dependencies) ==
    IF current_package # NoneValue /\ current_package # <<>>
       /\ target_package \in Range(current_dependencies)
    THEN <<current_package>> ELSE <<>>

\* The loop of src lines 390-413 from line i on: the packages appended to
\* reverse_deps, in order, with the final check of src lines 416-417.
RECURSIVE ScanFrom(_, _, _, _, _)
ScanFrom(lines, i, target_package, current_package, current_dependencies) ==
    LET hit == StanzaHit(target_package, current_package, current_dependencies)
    IN  IF i > Len(lines) THEN hit
        ELSE LET line == Strip(lines[i])
             IN  IF StartsWith(line, PackagePrefix)
                 THEN hit \o ScanFrom(lines, i + 1, target_package,
                                      DropFirst(line, 9), <<>>)
                 ELSE IF StartsWith(line, DependsPrefix)
                 THEN ScanFrom(lines, i + 1, target_package, current_package,
                               current_dependencies
                               \o DependsNames(DropFirst(line, 9)))
                 ELSE ScanFrom(lines, i + 1, target_package, current_package,
                               current_dependencies)

\* Variant: the list is returned as the scan appended to it
AsAppended(reverse_deps) == reverse_deps

\* src line 420: sorted(list(set(reverse_deps)))
SortedUnique(reverse_deps) == SortedList(Range(reverse_deps))

\* src lines 384-423: the scan, then sorted(list(set(reverse_deps))).
find_reverse_dependencies_advanced(content, target_package) ==
    The({SortedUnique(ScanFrom(lines, 1, target_package, NoneValue, <<>>)) :
           lines \in {Split(content, <<"\n">>)}})

(***************************************************************************)
(* The dependency graph: a Python dict, i.e. a sequence of <<key, value>>  *)
(* items in insertion order with no key twice.                             *)
(***************************************************************************)

Keys(g) == {g[i][1] : i \in 1..Len(g)}

Get(g, k) == g[CHOOSE i \in 1..Len(g) : g[i][1] = k][2]

\* Variant: the assignment starts the dict anew
PutAlone(g, k, v) == << <<k, v>> >>

\* g[k] = v
Put(g, k, v) ==
    IF k \in Keys(g)
    THEN [i \in 1..Len(g) |-> IF g[i][1] = k THEN <<k, v>> ELSE g[i]]
    ELSE Append(g, <<k, v>>)

\* Variant: every key is returned
AllKeys(g, target_package) == [i \in 1..Len(g) |-> g[i][1]]

\* find_reverse_dependencies (src lines 362-371): the keys whose list holds
\* target_package, in the dict's order.
RECURSIVE find_reverse_dependencies(_, _)
find_reverse_dependencies(g, target_package) ==
    IF g = <<>> THEN <<>>
    ELSE (IF target_package \in Range(Head(g)[2]) THEN <<Head(g)[1]>> ELSE <<>>)
         \o find_reverse_dependencies(Tail(g), target_package)

(***************************************************************************)
(* get_test_dependencies                                                   *)
(***************************************************************************)

test_data ==
    << <<"A", <<"B", "C", "D">> >>, <<"B", <<"E", "F">> >>,
       <<"C", <<"G", "H">> >>,      <<"D", <<"I", "J">> >>,
       <<"E", <<"K", "L">> >>,      <<"F", <<"M", "N">> >>,
       <<"G", <<"O", "P">> >>,      <<"H", <<"Q", "R">> >> >>

\* test_data.get(package, []) with every name as a str (a character sequence)
get_test_dependencies(package) ==
    IF \E i \in 1..Len(test_data) : <<test_data[i][1]>> = package
    THEN LET row == test_data[CHOOSE i \in 1..Len(test_data) :
                                  <<test_data[i][1]>> = package][2]
         IN  [j \in 1..Len(row) |-> <<row[j]>>]
    ELSE <<>>

(***************************************************************************)
(* Inputs: the configuration, the index text behind repository_url and, in *)
(* test mode, the root's dependencies read from the test file.             *)
(***************************************************************************)

\* The largest max_depth a run is configured with.
MaxDepthLimit == 3

\* The largest number of stanzas an index text is composed of.
MaxStanzas == 3

NL == <<"\n">>

StanzaAB ==
    PackagePrefix \o <<"A", "B">> \o NL \o DependsPrefix \o <<"D">> \o NL

\* "Package: A\nDepends: B, C (>= 2.0)\n\n"
StanzaA ==
    PackagePrefix \o <<"A">> \o NL
    \o DependsPrefix
    \o <<"B", ",", " ", "C", " ", "(", ">", "=", " ", "2", ".", "0", ")">>
    \o NL \o NL

\* "Package: B\nDepends: D\n\n"
StanzaB ==
    PackagePrefix \o <<"B">> \o NL \o DependsPrefix \o <<"D">> \o NL \o NL

\* "Package: C\n"
StanzaC == PackagePrefix \o <<"C">> \o NL

\* "Package: C\nDepends: D, A | D (>= 1), B(>=1)\n"
StanzaC2 ==
    PackagePrefix \o <<"C">> \o NL
    \o DependsPrefix
    \o <<"D", ",", " ", "A", " ", "|", " ", "D", " ", "(", ">", "=", " ", "1",
         ")", ",", " ", "B", "(", ">", "=", "1", ")">>
    \o NL

\* "Package: D\nDepends: A, AB\n"
StanzaD ==
    PackagePrefix \o <<"D">> \o NL
    \o DependsPrefix \o <<"A", ",", " ", "A", "B">> \o NL

\* " Package: X\nDepends: A\n": a continuation line that reads as a field
StanzaX ==
    <<" ">> \o PackagePrefix \o <<"X">> \o NL
    \o DependsPrefix \o <<"A">> \o NL

\* "Package: D\nDepends: A\n": a second stanza of D
StanzaD2 ==
    PackagePrefix \o <<"D">> \o NL \o DependsPrefix \o <<"A">> \o NL

StanzaPool ==
    <<StanzaAB, StanzaA, StanzaB, StanzaC, StanzaC2, StanzaD, StanzaX,
      StanzaD2>>

RECURSIVE TextOf(_, _)
TextOf(S, i) ==
    IF i > Len(StanzaPool) THEN <<>>
    ELSE (IF i \in S THEN StanzaPool[i] ELSE <<>>) \o TextOf(S, i + 1)

\* The simplified offline format: "A: B, C\nB: D\n"
SimpleText ==
    <<"A", ":", " ", "B", ",", " ", "C", "\n", "B", ":", " ", "D", "\n">>

\* The index texts: at most MaxStanzas stanzas of the pool, in the pool's
\* order, and the text in the offline format.
Texts ==
    {TextOf(S, 1) : S \in {T \in SUBSET (1..Len(StanzaPool)) :
                             Cardinality(T) <= MaxStanzas}}
    \cup {SimpleText}

RootNames == {<<"A">>, <<"B">>}

Filters == {<<>>, <<"B">>}

\* What test_mode_parse_dependencies may hand over as the root's
\* dependencies: a list of non-empty names, possibly with repetitions.
TestFileDeps ==
    { <<>>,
      << <<"B">>, <<"C">> >>,
      << <<"B">>, <<"B">>, <<"A">> >>,
      << <<"C">>, <<"D">>, <<"B">> >>,
      << <<"A">>, <<"C">> >> }

VARIABLES
    config,                \* package_name, test_mode, max_depth, filter_substring
    repo,                  \* the decoded text behind repository_url
    file_deps,             \* test mode: the root's dependencies in the test file
    pc,                    \* main()'s position
    dependencies,          \* stage 2's result
    packages_content,      \* build's cached index text
    graph, queue, visited, \* build's locals
    simple_reverse_deps, full_reverse_deps,   \* stage 4's results
    depth_of,              \* history: the depth each package was processed at
    looked_up,             \* history: the packages build asked the source for
    fetch_log              \* history: what each download_packages_file call returned

vars ==
    <<config, repo, file_deps, pc, dependencies, packages_content, graph, queue,
      visited, simple_reverse_deps, full_reverse_deps, depth_of, looked_up,
      fetch_log>>

\* download_packages_file (src lines 88-106): the decoded text, or None.
download_packages_file == {repo, NoneValue}

\* Variant: only the empty text counts as a failed download
IsEmptyText(content) == content = <<>>

\* not packages_content (src lines 211, 381)
IsFalsy(content) == content = NoneValue \/ content = <<>>

Init ==
    /\ config \in [package_name : RootNames, test_mode : BOOLEAN,
                   max_depth : 1..MaxDepthLimit, filter_substring : Filters]
    /\ repo \in (IF config.test_mode THEN {SimpleText} ELSE Texts)
    /\ file_deps \in (IF config.test_mode THEN TestFileDeps ELSE {<<>>})
    /\ pc = "stage2"
    /\ dependencies = <<>>
    /\ packages_content = NoneValue
    /\ graph = <<>>
    /\ queue = <<>>
    /\ visited = {}
    /\ simple_reverse_deps = <<>>
    /\ full_reverse_deps = <<>>
    /\ depth_of = <<>>
    /\ looked_up = {}
    /\ fetch_log = <<>>

build_vars == <<packages_content, graph, queue, visited, depth_of, looked_up>>

(***************************************************************************)
(* stage2_collect_dependencies (src lines 154-184)                         *)
(***************************************************************************)
Stage2 ==
    /\ pc = "stage2"
    /\ pc' = "stage3"
    /\ IF config.test_mode
       THEN /\ dependencies' = <<>>
            /\ fetch_log' = fetch_log
       ELSE \E content \in download_packages_file :
              /\ fetch_log' = Append(fetch_log, content # NoneValue)
              /\ IF content = NoneValue
                 THEN dependencies' = <<>>
                 ELSE dependencies' \in ListsOfSet(
                          parse_package_dependencies(content,
                                                     config.package_name))
    /\ UNCHANGED <<config, repo, file_deps, build_vars, simple_reverse_deps,
                   full_reverse_deps>>

(***************************************************************************)
(* build_dependency_graph_bfs (src lines 186-260), called by               *)
(* stage3_build_dependency_graph (src lines 324-338)                       *)
(***************************************************************************)

\* Variant: a dependency that would sit at the depth limit is not queued
RECURSIVE EnqueuedBelowLimit(_, _, _)
EnqueuedBelowLimit(deps, seen, depth) ==
    IF deps = <<>> \/ depth >= config.max_depth THEN <<>>
    ELSE (IF Head(deps) \notin seen THEN << <<Head(deps), depth>> >> ELSE <<>>)
         \o EnqueuedBelowLimit(Tail(deps), seen, depth)

\* Variant: below depth 2 the entries are queued at depth 1 again
RECURSIVE EnqueuedShallow(_, _, _)
EnqueuedShallow(deps, seen, depth) ==
    IF deps = <<>> THEN <<>>
    ELSE (IF Head(deps) \notin seen
          THEN << <<Head(deps), IF depth > 2 THEN 1 ELSE depth>> >> ELSE <<>>)
         \o EnqueuedShallow(Tail(deps), seen, depth)

\* src lines 202-204 and 251-253: the entries appended for deps
RECURSIVE Enqueued(_, _, _)
Enqueued(deps, seen, depth) ==
    IF deps = <<>> THEN <<>>
    ELSE (IF Head(deps) \notin seen THEN << <<Head(deps), depth>> >> ELSE <<>>)
         \o Enqueued(Tail(deps), seen, depth)

\* Variant: the head is read and left in the queue (queue[0])
PopKeepsHead(q) == q

\* src line 217: the queue after queue.pop(0)
Pop(q) == Tail(q)

\* Variant: the limit compared with > (a package at the limit is expanded)
DepthReachedStrictly(current_depth) == current_depth > config.max_depth

\* src line 226
DepthReached(current_depth) == current_depth >= config.max_depth

\* Variant: only a name equal to the filter is filtered
FilteredWhenEqual(current_package) ==
    /\ config.filter_substring # <<>>
    /\ current_package = config.filter_substring

\* Variant: the test for a non-empty filter is left out
FilteredUnguarded(current_package) ==
    Contains(current_package, config.filter_substring)

\* src line 232
Filtered(current_package) ==
    /\ config.filter_substring # <<>>
    /\ Contains(current_package, config.filter_substring)

\* Variant: a package that is not expanded gets no entry
RecordNothing(g, current_package) == g

\* src lines 228 and 234: graph[current_package] = []
RecordEmpty(g, current_package) == Put(g, current_package, <<>>)

\* src lines 241-246: the lists the dependency source may return
DependencySource(current_package) ==
    IF config.test_mode
    THEN {get_test_dependencies(current_package)}
    ELSE ListsOfSet(parse_package_dependencies(packages_content,
                                               current_package))

\* src lines 324-338 and 195-213: the graph and the queue are seeded, the
\* index is downloaded (not in test mode); a failed download returns the graph.
BuildStart ==
    /\ pc = "stage3"
    /\ LET start_package == config.package_name
           initial_dependencies ==
               IF config.test_mode THEN file_deps ELSE dependencies
       IN  /\ graph' = << <<start_package, initial_dependencies>> >>
           /\ visited' = {start_package}
           /\ queue' = Enqueued(initial_dependencies, {start_package}, 1)
    /\ IF config.test_mode
       THEN /\ packages_content' = NoneValue
            /\ fetch_log' = fetch_log
            /\ pc' = "bfs"
       ELSE /\ packages_content' \in download_packages_file
            /\ fetch_log' = Append(fetch_log, packages_content' # NoneValue)
            /\ pc' = IF IsFalsy(packages_content') THEN "stage4" ELSE "bfs"
    /\ UNCHANGED <<config, repo, file_deps, dependencies, simple_reverse_deps,
                   full_reverse_deps, depth_of, looked_up>>

\* src lines 217-221: an entry of a package already visited is dropped
BfsSkip ==
    /\ pc = "bfs" /\ queue # <<>>
    /\ Head(queue)[1] \in visited
    /\ queue' = Pop(queue)
    /\ UNCHANGED <<config, repo, file_deps, pc, dependencies, packages_content,
                   graph, visited, simple_reverse_deps, full_reverse_deps,
                   depth_of, looked_up, fetch_log>>

\* src lines 217-229: the depth limit is reached
BfsDepthCut ==
    /\ pc = "bfs" /\ queue # <<>>
    /\ LET current_package == Head(queue)[1]
           current_depth == Head(queue)[2]
       IN  /\ current_package \notin visited
           /\ DepthReached(current_depth)
           /\ visited' = visited \cup {current_package}
           /\ graph' = RecordEmpty(graph, current_package)
           /\ queue' = Pop(queue)
           /\ depth_of' = (current_package :> current_depth) @@ depth_of
    /\ UNCHANGED <<config, repo, file_deps, pc, dependencies, packages_content,
                   simple_reverse_deps, full_reverse_deps, looked_up, fetch_log>>

\* src lines 217-235: the package's name holds the filter substring
BfsFilter ==
    /\ pc = "bfs" /\ queue # <<>>
    /\ LET current_package == Head(queue)[1]
           current_depth == Head(queue)[2]
       IN  /\ current_package \notin visited
           /\ ~DepthReached(current_depth)
           /\ Filtered(current_package)
           /\ visited' = visited \cup {current_package}
           /\ graph' = RecordEmpty(graph, current_package)
           /\ queue' = Pop(queue)
           /\ depth_of' = (current_package :> current_depth) @@ depth_of
    /\ UNCHANGED <<config, repo, file_deps, pc, dependencies, packages_content,
                   simple_reverse_deps, full_reverse_deps, looked_up, fetch_log>>

\* src lines 217-253: the package is looked up, recorded and its unvisited
\* dependencies are queued one level deeper.  Neither get_test_dependencies
\* nor parse_package_dependencies raises, so the handler of src lines
\* 255-257 never runs.
BfsExpand ==
    /\ pc = "bfs" /\ queue # <<>>
    /\ LET current_package == Head(queue)[1]
           current_depth == Head(queue)[2]
       IN  /\ current_package \notin visited
           /\ ~DepthReached(current_depth)
           /\ ~Filtered(current_package)
           /\ visited' = visited \cup {current_package}
           /\ \E deps \in DependencySource(current_package) :
                /\ graph' = Put(graph, current_package, deps)
                /\ queue' = Pop(queue)
                            \o Enqueued(deps, visited', current_depth + 1)
           /\ depth_of' = (current_package :> current_depth) @@ depth_of
           /\ looked_up' = looked_up \cup {current_package}
    /\ UNCHANGED <<config, repo, file_deps, pc, dependencies, packages_content,
                   simple_reverse_deps, full_reverse_deps, fetch_log>>

\* src lines 216, 259-260: the queue is empty, the graph is returned
BuildReturn ==
    /\ pc = "bfs" /\ queue = <<>>
    /\ pc' = "stage4"
    /\ UNCHANGED <<config, repo, file_deps, dependencies, build_vars,
                   simple_reverse_deps, full_reverse_deps, fetch_log>>

(***************************************************************************)
(* stage4_reverse_dependencies (src lines 425-454)                         *)
(***************************************************************************)
Stage4 ==
    /\ pc = "stage4"
    /\ pc' = "done"
    /\ simple_reverse_deps' =
           find_reverse_dependencies(graph, config.package_name)
    /\ \E content \in download_packages_file :
         /\ fetch_log' = Append(fetch_log, content # NoneValue)
         /\ full_reverse_deps' =
                IF IsFalsy(content) THEN <<>>
                ELSE find_reverse_dependencies_advanced(content,
                                                        config.package_name)
    /\ UNCHANGED <<config, repo, file_deps, dependencies, build_vars>>

Next ==
    \/ Stage2
    \/ BuildStart
    \/ BfsSkip
    \/ BfsDepthCut
    \/ BfsFilter
    \/ BfsExpand
    \/ BuildReturn
    \/ Stage4

Spec == Init /\ [][Next]_vars

\* main() runs every stage to its end: no step is postponed forever.
FairSpec == Spec /\ WF_vars(Next)

(***************************************************************************)
(* Properties                                                              *)
(***************************************************************************)

start_package == config.package_name

\* build has returned (main() is at or past stage 4)
BuildReturned == pc \in {"stage4", "done"}

\* build returned through the failed download of src lines 211-213
FetchFailed ==
    BuildReturned /\ ~config.test_mode /\ IsFalsy(packages_content)

\* build returned from the end of the loop
TraversalCompleted == BuildReturned /\ ~FetchFailed

\* the names occurring in the recorded dependency lists
Recorded == UNION {Range(graph[i][2]) : i \in 1..Len(graph)}

\* C1: once build's BFS loop is entered it empties the queue and build
\* returns, whatever the dependency relation (cyclic or not), max_depth and
\* filter.
C1_BuildTerminates == (pc = "bfs") ~> (pc = "stage4")

\* build has returned from a traversal that expanded a package depending on
\* the root again: the relation traversed has a cycle through the root
C1_Witness ==
    /\ pc = "stage4"
    /\ \E n \in looked_up : start_package \in Range(Get(graph, n))

\* C2: whenever build has returned, normally or through the failed download,
\* the visited set is the set of the graph's keys.
C2_VisitedAreKeys == BuildReturned => visited = Keys(graph)

\* build has returned with an expanded package and a package cut or filtered
C2_Witness ==
    /\ pc = "stage4"
    /\ looked_up # {}
    /\ \E n \in visited \ looked_up : n # start_package

\* C3: no queue entry and no processed package has a depth above max_depth;
\* a package processed at a depth >= max_depth has an empty list and was
\* never looked up; with max_depth = 1 a completed traversal leaves every
\* (non-root) initial dependency with an empty list.
C3_DepthCutoff ==
    /\ \A i \in 1..Len(queue) : queue[i][2] <= config.max_depth
    /\ \A n \in DOMAIN depth_of :
         /\ depth_of[n] <= config.max_depth
         /\ depth_of[n] >= config.max_depth =>
               Get(graph, n) = <<>> /\ n \notin looked_up
    /\ (TraversalCompleted /\ config.max_depth = 1) =>
         \A d \in Range(Get(graph, start_package)) \ {start_package} :
            d \in Keys(graph) /\ Get(graph, d) = <<>>

\* a package the index gives dependencies was processed at exactly max_depth,
\* two levels or more below the root
C3_Witness ==
    /\ ~config.test_mode /\ config.max_depth >= 2
    /\ \E n \in DOMAIN depth_of :
         /\ depth_of[n] = config.max_depth
         /\ parse_package_dependencies(packages_content, n) # {}

\* The scenario's index text:
\* "Package: A\nDepends: B, C (>= 2.0)\n\nPackage: B\nDepends: D\n\nPackage: C\n"
ScenarioText == StanzaA \o StanzaB \o StanzaC

\* build("A", {"B","C"}, maxDepth=2, filter="") over the scenario's index has
\* returned
C4_Scenario ==
    /\ pc = "stage4" /\ ~config.test_mode
    /\ packages_content = ScenarioText
    /\ start_package = <<"A">>
    /\ Range(Get(graph, <<"A">>)) = {<<"B">>, <<"C">>}
    /\ config.max_depth = 2 /\ config.filter_substring = <<>>

\* C4 as claimed: the scenario's graph has exactly the keys A, B, C, with
\* A -> {B, C}, B -> {D}, C -> {} and no key for D.
C4_Original ==
    C4_Scenario =>
        /\ Keys(graph) = {<<"A">>, <<"B">>, <<"C">>}
        /\ Get(graph, <<"B">>) = << <<"D">> >>
        /\ Get(graph, <<"C">>) = <<>>

\* C4 as amended: the scenario's graph has exactly the keys A, B, C, D, with
\* A -> {B, C}, B -> {D}, C -> {} and D -> {} (D is queued at depth 2, the
\* limit, and recorded with an empty list).
C4_ScenarioGraph ==
    C4_Scenario =>
        /\ Keys(graph) = {<<"A">>, <<"B">>, <<"C">>, <<"D">>}
        /\ Get(graph, <<"B">>) = << <<"D">> >>
        /\ Get(graph, <<"C">>) = <<>>
        /\ Get(graph, <<"D">>) = <<>>

\* the scenario has run to build's return, D processed
C4_Witness == C4_Scenario /\ <<"D">> \in visited

\* C5 as claimed: with a non-empty filter, every package occurring in a
\* recorded dependency list whose name holds the filter has an entry with an
\* empty list in the returned graph and was never looked up.
C5_Original ==
    (BuildReturned /\ config.filter_substring # <<>>) =>
        \A n \in Recorded :
            Contains(n, config.filter_substring) =>
                /\ n \in Keys(graph)
                /\ Get(graph, n) = <<>>
                /\ n \notin looked_up

\* C5 as amended: the same of every package other than the root, when build
\* returns from a completed traversal (not from the failed download).
C5_FilteredAreLeaves ==
    (TraversalCompleted /\ config.filter_substring # <<>>) =>
        \A n \in Recorded \ {start_package} :
            Contains(n, config.filter_substring) =>
                /\ n \in Keys(graph)
                /\ Get(graph, n) = <<>>
                /\ n \notin looked_up

\* a package whose name properly holds the filter and that the index gives
\* dependencies was reached above the depth limit and recorded
C5_Witness ==
    /\ TraversalCompleted /\ ~config.test_mode
    /\ config.filter_substring # <<>>
    /\ \E n \in (Recorded \cap DOMAIN depth_of) \ {start_package} :
         /\ Contains(n, config.filter_substring)
         /\ n # config.filter_substring
         /\ depth_of[n] < config.max_depth
         /\ parse_package_dependencies(packages_content, n) # {}

\* C6: with the empty filter, every package processed at a depth below
\* max_depth was looked up and its list is one the dependency source returns
\* for it.
C6_EmptyFilterExpands ==
    config.filter_substring = <<>> =>
        \A n \in DOMAIN depth_of :
            depth_of[n] < config.max_depth =>
                /\ n \in looked_up
                /\ Get(graph, n) \in DependencySource(n)

\* with the empty filter a package was expanded to a non-empty list
C6_Witness ==
    /\ config.filter_substring = <<>>
    /\ \E n \in DOMAIN depth_of :
         depth_of[n] < config.max_depth /\ Get(graph, n) # <<>>

\* the download at position k of the run succeeded
FetchOk(k) == k \in 1..Len(fetch_log) /\ fetch_log[k]

\* C7 as claimed: for a graph built from the index with the empty filter and
\* no package cut at the depth limit, every package find_reverse_dependencies
\* returns for a target is returned by find_reverse_dependencies_advanced
\* over the same index.
C7_GraphReverseWithinFullReverse ==
    (/\ TraversalCompleted /\ ~config.test_mode /\ FetchOk(1)
     /\ config.filter_substring = <<>>
     /\ \A n \in DOMAIN depth_of : depth_of[n] < config.max_depth)
    => \A T \in Recorded \cup {start_package} :
          Range(find_reverse_dependencies(graph, T))
              \subseteq Range(find_reverse_dependencies_advanced(
                                  packages_content, T))

\* stage 4 is over and its download returned the text
ScanDone == pc = "done" /\ FetchOk(Len(fetch_log))

\* C8 as claimed: over the offline-format content "A: B, C\nB: D\n" with
\* target B, find_reverse_dependencies_advanced returns [A].
C8_Original ==
    (ScanDone /\ repo = SimpleText /\ start_package = <<"B">>)
        => full_reverse_deps = << <<"A">> >>

\* C8 as amended: over the offline-format content the scan returns the empty
\* list (no line starts with "Package: " or "Depends: "); over the same
\* relation in stanza format ("Package: A", "Depends: B, C (>= 2.0)",
\* "Package: B", "Depends: D") it returns [A].
C8_OfflineFormatYieldsNothing ==
    (ScanDone /\ start_package = <<"B">>) =>
        /\ repo = SimpleText => full_reverse_deps = <<>>
        /\ repo = StanzaA \o StanzaB => full_reverse_deps = << <<"A">> >>

\* the scan has run over the offline-format content with target B
C8_Witness == ScanDone /\ repo = SimpleText /\ start_package = <<"B">>

\* The name the claim gives a clause: after trimming, what stands before the
\* first "(" or the first space, whichever comes first.
BareName(clause) ==
    The({SubSeq(d, 1, (CHOOSE i \in 1..(Len(d) + 1) :
                          /\ i = Len(d) + 1 \/ d[i] \in {"(", " "}
                          /\ \A j \in 1..(i - 1) : d[j] \notin {"(", " "}) - 1) :
           d \in {Strip(clause)}})

\* the clauses of the Depends lines of an index text
Clauses(content) ==
    UNION {Range(Split(DropFirst(line, 9), <<",">>)) :
             line \in {l \in Range(Split(content, <<"\n">>)) :
                         StartsWith(l, DependsPrefix)}}

\* C9 as claimed: of every Depends clause the parsers have read, the name
\* kept is the bare name of the first alternative.
C9_BareNameKept ==
    ScanDone => \A clause \in Clauses(repo) : DepName(clause) = BareName(clause)

\* x is a name of a Depends line that follows a line "Package: <name>" with
\* exactly that value, no other "Package: " line in between
FromExactStanza(lines, package_name, x) ==
    \E i \in 1..Len(lines) : \E j \in (i + 1)..Len(lines) :
        /\ lines[i] = PackagePrefix \o package_name
        /\ StartsWith(lines[j], DependsPrefix)
        /\ x \in Range(DependsNames(DropFirst(lines[j], 9)))
        /\ \A k \in (i + 1)..(j - 1) : ~StartsWith(lines[k], PackagePrefix)

\* the lookups made so far in production mode: <<name, result>>
Lookups ==
    (IF pc # "stage2" /\ FetchOk(1)
     THEN {<<start_package, Range(dependencies)>>} ELSE {})
    \cup {<<n, Range(Get(graph, n))>> : n \in looked_up}

\* C10: every name a lookup returns comes from a Depends line of a stanza
\* whose "Package: " line carries exactly the requested name; so a lookup of
\* a name that no stanza carries exactly, or whose stanzas have no Depends
\* line, returns the empty set.
C10_ExactNameMatch ==
    ~config.test_mode =>
        \A lines \in {Split(repo, <<"\n">>)} : \A l \in Lookups :
            \A x \in l[2] : FromExactStanza(lines, l[1], x)

\* A was looked up in an index that has no stanza A but a stanza AB with a
\* Depends line and a stanza D depending on A: nothing was returned
C10_Witness ==
    /\ ~config.test_mode /\ pc = "stage3" /\ FetchOk(1)
    /\ start_package = <<"A">>
    /\ repo = StanzaAB \o StanzaD
    /\ dependencies = <<>>

\* The names of the Depends lines between the first line "Package: <name>"
\* with exactly that value and the next line starting with "Package: "
\* (or the end of the text).
FirstStanzaNames(lines, package_name) ==
    LET M == {i \in 1..Len(lines) : lines[i] = PackagePrefix \o package_name}
    IN  IF M = {} THEN {}
        ELSE LET first == CHOOSE i \in M : \A j \in M : i <= j
                 P == {k \in (first + 1)..Len(lines) :
                         StartsWith(lines[k], PackagePrefix)}
                 end == IF P = {} THEN Len(lines) + 1
                        ELSE CHOOSE k \in P : \A j \in P : k <= j
             IN  UNION {Range(DependsNames(DropFirst(lines[j], 9))) :
                          j \in {j \in (first + 1)..(end - 1) :
                                   StartsWith(lines[j], DependsPrefix)}}

\* C11 as claimed: a lookup returns the names of the Depends lines of the
\* target's stanza, which ends at the next "Package: " line whatever name
\* that line carries, or at the end of the text.
C11_StopsAtNextPackageLine ==
    ~config.test_mode =>
        \A lines \in {Split(repo, <<"\n">>)} : \A l \in Lookups :
            l[2] = FirstStanzaNames(lines, l[1])

\* the lines of a text as the scan reads them
StrippedLines(content) ==
    The({[k \in 1..Len(lines) |-> Strip(lines[k])] :
           lines \in {Split(content, <<"\n">>)}})

\* The packages heading a stanza one of whose Depends lines names the
\* target; lines are the trimmed lines of the text.
Dependants(lines, target_package) ==
    {DropFirst(lines[i], 9) :
       i \in {i \in 1..Len(lines) :
                /\ StartsWith(lines[i], PackagePrefix)
                /\ \E j \in (i + 1)..Len(lines) :
                     /\ StartsWith(lines[j], DependsPrefix)
                     /\ target_package
                            \in Range(DependsNames(DropFirst(lines[j], 9)))
                     /\ \A k \in (i + 1)..(j - 1) :
                            ~StartsWith(lines[k], PackagePrefix)}}

\* C12: the scan returns exactly the packages heading a stanza (a trimmed line
\* "Package: <name>" up to the next one or the end of the text) whose
\* Depends names hold the target: the last stanza is checked too and no
\* dependency is attributed to the following package.
C12_ExactDependants ==
    ScanDone =>
        Range(full_reverse_deps)
            = Dependants(StrippedLines(repo), start_package)

\* the last stanza depends on the target, the one before it does not
C12_Witness ==
    /\ ScanDone /\ start_package = <<"A">>
    /\ repo = StanzaB \o StanzaD
    /\ full_reverse_deps = << <<"D">> >>

\* C13: the scan's result is in strictly ascending order, hence without
\* duplicates, and scanning the same text for the same target again yields
\* the same list.
C13_SortedUniqueStable ==
    ScanDone =>
        /\ \A i \in 1..Len(full_reverse_deps) :
             \A j \in (i + 1)..Len(full_reverse_deps) :
                StrLess(full_reverse_deps[i], full_reverse_deps[j])
        /\ full_reverse_deps
               = find_reverse_dependencies_advanced(repo, start_package)

\* D heads two stanzas depending on the target, with X between them
C13_Witness ==
    /\ ScanDone /\ start_package = <<"A">>
    /\ repo = StanzaD \o StanzaX \o StanzaD2
    /\ full_reverse_deps = << <<"D">>, <<"X">> >>

\* C14: after the failed download inside build the graph holds the single
\* entry root -> initial dependencies; nothing was dequeued or looked up.
C14_FetchFailureKeepsSeed ==
    (BuildReturned /\ ~config.test_mode /\ ~FetchOk(2)) =>
        /\ graph = << <<start_package, dependencies>> >>
        /\ visited = {start_package}
        /\ looked_up = {}
        /\ depth_of = <<>>

\* build's download failed after stage 2 had found dependencies
C14_Witness ==
    /\ pc = "stage4" /\ ~config.test_mode
    /\ FetchOk(1) /\ ~FetchOk(2)
    /\ Range(dependencies) \ {start_package} # {}

\* C15 as claimed: in production mode the forward phase (stage 2 and build)
\* downloads the index once; the scan of stage 4 downloads it once more.
C15_OneForwardFetch ==
    ~config.test_mode =>
        /\ pc = "stage4" => Len(fetch_log) = 1
        /\ pc = "done" => Len(fetch_log) = 2

\* C16 as claimed: the queue never holds two entries for one package.
C16_NoDuplicateInQueue ==
    \A i \in 1..Len(queue) : \A j \in (i + 1)..Len(queue) :
        queue[i][1] # queue[j][1]

\* C17: the queue's depths never decrease from head to tail, and no queued
\* entry is shallower than the depth any package was processed at; so a
\* package is processed at the smallest depth it was queued with.
C17_BreadthFirst ==
    /\ \A i \in 1..Len(queue) : \A j \in (i + 1)..Len(queue) :
          queue[i][2] <= queue[j][2]
    /\ \A n \in DOMAIN depth_of : \A i \in 1..Len(queue) :
          depth_of[n] <= queue[i][2]

\* a package queued at two depths was processed at the smaller one, its
\* deeper entry still in the queue
C17_Witness ==
    /\ pc = "bfs"
    /\ \E i \in 1..Len(queue) :
         /\ queue[i][1] \in DOMAIN depth_of
         /\ depth_of[queue[i][1]] < queue[i][2]

\* the dependencies build was seeded with
initial_dependencies == IF config.test_mode THEN file_deps ELSE dependencies

\* C18: no step removes or changes an entry of the graph; the root's entry
\* stays the initial dependencies and the root is never looked up.
C18_GraphGrowsOnly ==
    /\ [][\A k \in Keys(graph) :
             k \in Keys(graph') /\ Get(graph', k) = Get(graph, k)]_vars
    /\ [](pc \in {"bfs", "stage4", "done"} =>
             /\ start_package \in Keys(graph)
             /\ Get(graph, start_package) = initial_dependencies
             /\ start_package \notin looked_up)

\* the root came up again in the list of a package that was expanded, and
\* its entry is a non-empty list
C18_Witness ==
    /\ TraversalCompleted
    /\ Get(graph, start_package) # <<>>
    /\ \E n \in looked_up : start_package \in Range(Get(graph, n))
    /\ Len(graph) >= 3

\* C19: find_reverse_dependencies returns each key whose list holds the
\* target once and no other name, and stage 4 leaves the graph as it was.
C19_GraphReverseExact ==
    /\ [](pc = "done" =>
             /\ Range(simple_reverse_deps)
                    = {k \in Keys(graph) :
                         start_package \in Range(Get(graph, k))}
             /\ Len(simple_reverse_deps)
                    = Cardinality(Range(simple_reverse_deps)))
    /\ [][pc = "stage4" => graph' = graph]_vars

\* some keys depend on the target and some do not
C19_Witness ==
    /\ pc = "done"
    /\ Len(simple_reverse_deps) >= 2
    /\ Keys(graph) \ Range(simple_reverse_deps) # {}

\* C20: after a completed traversal every name in a recorded list is a key
\* of the graph; after the failed download no seeded dependency other than
\* the root is.
C20_ClosedUnderEdges ==
    /\ TraversalCompleted => Recorded \subseteq Keys(graph)
    /\ FetchFailed => Recorded \cap Keys(graph) \subseteq {start_package}

\* a completed traversal recorded names beyond the initial dependencies
C20_Witness ==
    /\ TraversalCompleted
    /\ Recorded \ (Range(initial_dependencies) \cup {start_package}) # {}

=============================================================================
